---- MODULE Spec2Model ----
(***************************************************************************)
(* The LCA report pipeline of lca_bot_ai_web_scraper_safe.py: inventory    *)
(* table, chart files, web excerpt, eight narrative sections, the report   *)
(* document, and the Streamlit shell that runs them on a button press.     *)
(*                                                                         *)
(* A Python str is a sequence of tokens: a token is one character (" ",    *)
(* "_", ".", a digit) wherever the code looks inside the string, and a     *)
(* whole word elsewhere.  A float is an integer count of 1/Scale.          *)
(***************************************************************************)
EXTENDS Integers, Sequences, FiniteSets, TLC

\* ------------------------------------------------------------------ bounds
MaxDraw == 2
MaxRuns == 2
MaxApiErrors == 1
MaxMatches == 6

\* a float carries ten fractional bits
Scale == 2 ^ 10

Sessions == {1, 2}

\* ------------------------------------------------------------------ str
SP == " "
US == "_"
DOT == "."

Replace(s, a, b) == [i \in 1..Len(s) |-> IF s[i] = a THEN b ELSE s[i]]

Contains(s, sub) ==
  \E i \in 0..(Len(s) - Len(sub)) : SubSeq(s, i + 1, i + Len(sub)) = sub

RECURSIVE LStrip(_)
LStrip(s) == IF s # <<>> /\ Head(s) = SP THEN LStrip(Tail(s)) ELSE s

RECURSIVE RStrip(_)
RStrip(s) ==
  IF s # <<>> /\ s[Len(s)] = SP THEN RStrip(SubSeq(s, 1, Len(s) - 1)) ELSE s

Strip(s) == RStrip(LStrip(s))

RECURSIVE Join(_, _)
Join(sep, parts) ==
  IF parts = <<>> THEN <<>>
  ELSE IF Len(parts) = 1 THEN parts[1]
  ELSE parts[1] \o sep \o Join(sep, Tail(parts))

\* s.split('.')[0]
RECURSIVE SplitDotFirst(_)
SplitDotFirst(s) ==
  IF s = <<>> \/ Head(s) = DOT THEN <<>>
  ELSE <<Head(s)>> \o SplitDotFirst(Tail(s))

TitleToken(t) ==
  CASE t = "(MJ)" -> "(Mj)"
    [] t = "GHG" -> "Ghg"
    [] t = "(kg" -> "(Kg"
    [] t = "CO2-eq)" -> "Co2-Eq)"
    [] t = "(L)" -> "(L)"
    [] OTHER -> t

Title(s) == [i \in 1..Len(s) |-> TitleToken(s[i])]

DigitChar == <<"0", "1", "2", "3", "4", "5", "6", "7", "8", "9">>

RECURSIVE Digits(_)
Digits(n) ==
  IF n < 10 THEN <<DigitChar[n + 1]>>
  ELSE Digits(n \div 10) \o <<DigitChar[(n % 10) + 1]>>

\* round(val, 2) of a float val (a count of 1/Scale): the nearest hundredth,
\* an exact tie going to the even one; the result as a count of hundredths
RoundDown2(val) == (val * 100) \div Scale

Round2(val) ==
  LET n == val * 100
      q == n \div Scale
      r == n % Scale
  IN  IF 2 * r < Scale THEN q
      ELSE IF 2 * r > Scale THEN q + 1
      ELSE IF q % 2 = 0 THEN q ELSE q + 1

\* str(x) of a float x that is a whole number of hundredths h: "93.32", "85.1", "100.0"
FloatStr(h) ==
  LET f == h % 100
  IN  Digits(h \div 100) \o <<DOT>> \o
      (IF f % 10 = 0 THEN <<DigitChar[(f \div 10) + 1]>>
       ELSE <<DigitChar[(f \div 10) + 1], DigitChar[(f % 10) + 1]>>)

\* ------------------------------------------------------------------ data
StageNames ==
  << <<"Materials">>, <<"Manufacturing">>, <<"Use", SP, "Phase">>, <<"End-of-Life">> >>

StageColumn == <<"Life", SP, "Cycle", SP, "Stage">>

MetricColumns ==
  << <<"Energy", SP, "Use", SP, "(MJ)">>,
     <<"GHG", SP, "Emissions", SP, "(kg", SP, "CO2-eq)">>,
     <<"Water", SP, "Use", SP, "(L)">> >>

\* random.uniform(lo, hi) per metric column and stage row
RangeLo == << <<80, 50, 10, 15>>, <<5, 8, 1, 2>>, <<20, 10, 1, 5>> >>
RangeHi == << <<120, 100, 20, 30>>, <<10, 12, 3, 4>>, <<40, 30, 5, 15>> >>

\* the fractional offsets a draw adds to the low end of its range, in 1/Scale
DrawOffsets == <<0, 128, 384, 1000, 1531, 2048, 717, 1920>>

Uniform(c, r, k) ==
  RangeLo[c][r] * Scale + DrawOffsets[((k + 2 * r + c) % Len(DrawOffsets)) + 1]

TextCell(s) == [num |-> FALSE, val |-> 0, str |-> s]
NumCell(v) == [num |-> TRUE, val |-> v, str |-> <<>>]

NoFrame == [columns |-> <<>>, rows |-> <<>>]

LciFrame(k) ==
  [columns |-> <<StageColumn>> \o MetricColumns,
   rows |-> [r \in 1..Len(StageNames) |->
               <<TextCell(StageNames[r])>> \o
               [c \in 1..Len(MetricColumns) |-> NumCell(Uniform(c, r, k))]]]

SectionOrderSwapped ==
  << <<"1.", SP, "Introduction">>, <<"Executive", SP, "Summary">>,
     <<"2.", SP, "Goal", SP, "and", SP, "Scope">>, <<"3.", SP, "Functional", SP, "Unit">>,
     <<"4.", SP, "System", SP, "Boundary">>, <<"8.", SP, "Interpretation">>,
     <<"9.", SP, "Limitations">>, <<"10.", SP, "Recommendations">> >>

SectionOrder ==
  << <<"Executive", SP, "Summary">>, <<"1.", SP, "Introduction">>,
     <<"2.", SP, "Goal", SP, "and", SP, "Scope">>, <<"3.", SP, "Functional", SP, "Unit">>,
     <<"4.", SP, "System", SP, "Boundary">>, <<"8.", SP, "Interpretation">>,
     <<"9.", SP, "Limitations">>, <<"10.", SP, "Recommendations">> >>

ElectricToothbrush == <<"Electric", SP, "Toothbrush">>
EcoMug == <<"Eco", SP, "Mug">>
Eco_Mug == <<"Eco", US, "Mug">>

Products == {ElectricToothbrush, EcoMug, Eco_Mug}


\* ------------------------------------------------------------------ files and documents
NoImage == [title |-> <<>>, stages |-> <<>>, bars |-> <<>>]

\* what a file of the working directory holds; writer is the session that wrote it
PngFile(image, s) == [kind |-> "png", image |-> image, body |-> <<>>, writer |-> s]
DocxFile(body, s) == [kind |-> "docx", image |-> NoImage, body |-> body, writer |-> s]
NoFile == [kind |-> "none", image |-> NoImage, body |-> <<>>, writer |-> 0]

Heading(text, level) ==
  [kind |-> "heading", text |-> text, level |-> level, align |-> "left",
   rows |-> <<>>, image |-> NoFile]
Paragraph(text) ==
  [kind |-> "paragraph", text |-> text, level |-> 0, align |-> "left",
   rows |-> <<>>, image |-> NoFile]
ParagraphRight(text) ==
  [kind |-> "paragraph", text |-> text, level |-> 0, align |-> "right",
   rows |-> <<>>, image |-> NoFile]
PageBreak ==
  [kind |-> "page_break", text |-> <<>>, level |-> 0, align |-> "left",
   rows |-> <<>>, image |-> NoFile]
Table(rows) ==
  [kind |-> "table", text |-> <<>>, level |-> 0, align |-> "left",
   rows |-> rows, image |-> NoFile]
Picture(file) ==
  [kind |-> "picture", text |-> <<>>, level |-> 0, align |-> "left",
   rows |-> <<>>, image |-> file]

Write(d, name, file) == (name :> file) @@ d

\* ------------------------------------------------------------------ exceptions
NoError == [exc |-> "none", at |-> "none"]
Exc(e, at) == [exc |-> e, at |-> at]

\* the subclasses of openai.OpenAIError the completion call raises
OpenAIErrors == {"RateLimitError", "APIConnectionError"}

ErrorText(e) ==
  IF e = "RateLimitError" THEN <<"Error code: 429 - insufficient_quota">>
  ELSE <<"Connection error.">>

\* ------------------------------------------------------------------ state
VARIABLES
  client,       \* whether OPENAI_API_KEY was set at startup (client is not None)
  disk,         \* the working directory: file name -> file
  apiErrors,    \* OpenAIErrors raised so far
  pc,           \* per session: where the script run is
  busy,         \* per session: the spinner is shown
  runs,         \* per session: button presses so far
  idx,          \* per session: the running loop's position
  product, df, charts, web_data, ai_sections, doc, report_path,
  error,        \* per session: the uncaught exception the shell displays
  offered,      \* per session: the file the download button holds
  page,         \* per session: the matching elements of the fetched page
  log           \* per session: the calls this run has made, in order

vars == <<client, disk, apiErrors, pc, busy, runs, idx, product, df, charts,
          web_data, ai_sections, doc, report_path, error, offered, page, log>>

locals == <<df, charts, web_data, ai_sections, doc, report_path>>

Event(op, arg) == [op |-> op, arg |-> arg]

NoSections == [l \in {} |-> <<>>]

Init ==
  /\ client \in BOOLEAN
  /\ disk = [n \in {} |-> NoFile]
  /\ apiErrors = 0
  /\ pc = [s \in Sessions |-> "idle"]
  /\ busy = [s \in Sessions |-> FALSE]
  /\ runs = [s \in Sessions |-> 0]
  /\ idx = [s \in Sessions |-> 0]
  /\ product = [s \in Sessions |-> ElectricToothbrush]
  /\ df = [s \in Sessions |-> NoFrame]
  /\ charts = [s \in Sessions |-> <<>>]
  /\ web_data = [s \in Sessions |-> <<>>]
  /\ ai_sections = [s \in Sessions |-> NoSections]
  /\ doc = [s \in Sessions |-> <<>>]
  /\ report_path = [s \in Sessions |-> <<>>]
  /\ error = [s \in Sessions |-> NoError]
  /\ offered = [s \in Sessions |-> NoFile]
  /\ page = [s \in Sessions |-> <<>>]
  /\ log = [s \in Sessions |-> <<>>]

\* an exception nothing catches ends the script run: the spinner's context
\* exits and the shell displays the error
Raise(s, e, at) ==
  /\ pc' = [pc EXCEPT ![s] = "idle"]
  /\ busy' = [busy EXCEPT ![s] = FALSE]
  /\ error' = [error EXCEPT ![s] = Exc(e, at)]

Logged(s, op, arg) == log' = [log EXCEPT ![s] = Append(@, Event(op, arg))]

\* ------------------------------------------------------------------ the shell
\* a press of "Generate Report": the script reruns from its top in a fresh
\* namespace, with the text input's value, and enters the spinner
TriggerKeepsLocals(s, p) ==
  /\ pc[s] = "idle"
  /\ runs[s] < MaxRuns
  /\ runs' = [runs EXCEPT ![s] = @ + 1]
  /\ product' = [product EXCEPT ![s] = p]
  /\ pc' = [pc EXCEPT ![s] = "lci"]
  /\ busy' = [busy EXCEPT ![s] = TRUE]
  /\ idx' = [idx EXCEPT ![s] = 0]
  /\ error' = [error EXCEPT ![s] = NoError]
  /\ offered' = [offered EXCEPT ![s] = NoFile]
  /\ page' = [page EXCEPT ![s] = <<>>]
  /\ log' = [log EXCEPT ![s] = <<>>]
  /\ UNCHANGED <<client, disk, apiErrors, df, charts, web_data, ai_sections, doc,
                 report_path>>

Trigger(s, p) ==
  /\ pc[s] = "idle"
  /\ runs[s] < MaxRuns
  /\ runs' = [runs EXCEPT ![s] = @ + 1]
  /\ product' = [product EXCEPT ![s] = p]
  /\ pc' = [pc EXCEPT ![s] = "lci"]
  /\ busy' = [busy EXCEPT ![s] = TRUE]
  /\ idx' = [idx EXCEPT ![s] = 0]
  /\ df' = [df EXCEPT ![s] = NoFrame]
  /\ charts' = [charts EXCEPT ![s] = <<>>]
  /\ web_data' = [web_data EXCEPT ![s] = <<>>]
  /\ ai_sections' = [ai_sections EXCEPT ![s] = NoSections]
  /\ doc' = [doc EXCEPT ![s] = <<>>]
  /\ report_path' = [report_path EXCEPT ![s] = <<>>]
  /\ error' = [error EXCEPT ![s] = NoError]
  /\ offered' = [offered EXCEPT ![s] = NoFile]
  /\ page' = [page EXCEPT ![s] = <<>>]
  /\ log' = [log EXCEPT ![s] = <<>>]
  /\ UNCHANGED <<client, disk, apiErrors>>

\* ------------------------------------------------------------------ generate_lci_data
GenerateLciData(s, k) ==
  /\ pc[s] = "lci"
  /\ df' = [df EXCEPT ![s] = LciFrame(k)]
  /\ pc' = [pc EXCEPT ![s] = "visuals"]
  /\ idx' = [idx EXCEPT ![s] = 1]
  /\ Logged(s, "generate_lci_data", <<>>)
  /\ UNCHANGED <<client, disk, apiErrors, busy, runs, product, charts, web_data,
                 ai_sections, doc, report_path, error, offered, page>>

\* ------------------------------------------------------------------ create_visuals
\* df.columns[1:]
ChartColumnsAll(frame) == [i \in 1..Len(frame.columns) |-> i]
ChartColumns(frame) == [i \in 1..(Len(frame.columns) - 1) |-> i + 1]

ChartFile(column) == Replace(column, SP, US) \o <<DOT, "png">>

BarChart(frame, c) ==
  [title |-> frame.columns[c] \o <<" by Stage">>,
   stages |-> [r \in 1..Len(frame.rows) |-> frame.rows[r][1].str],
   bars |-> [r \in 1..Len(frame.rows) |-> frame.rows[r][c].val]]

\* (as CreateVisuals, each session writing its charts under a name of its own)
CreateVisualsScoped(s) ==
  /\ pc[s] = "visuals"
  /\ idx[s] <= Len(ChartColumns(df[s]))
  /\ LET c == ChartColumns(df[s])[idx[s]]
         file == <<"session", Digits(s)[1], "/">> \o ChartFile(df[s].columns[c])
     IN  /\ disk' = Write(disk, file, PngFile(BarChart(df[s], c), s))
         /\ charts' = [charts EXCEPT ![s] = Append(@, file)]
         /\ Logged(s, "savefig", file)
  /\ IF idx[s] = Len(ChartColumns(df[s]))
       THEN /\ pc' = [pc EXCEPT ![s] = "scrape"]
            /\ idx' = [idx EXCEPT ![s] = 0]
       ELSE /\ idx' = [idx EXCEPT ![s] = @ + 1]
            /\ pc' = pc
  /\ UNCHANGED <<client, apiErrors, busy, runs, product, df, web_data, ai_sections,
                 doc, report_path, error, offered, page>>

\* one pass of the loop body: the chart of one column is drawn and saved; the
\* pass of the last column returns chart_files
CreateVisuals(s) ==
  /\ pc[s] = "visuals"
  /\ idx[s] <= Len(ChartColumns(df[s]))
  /\ LET c == ChartColumns(df[s])[idx[s]]
         file == ChartFile(df[s].columns[c])
     IN  /\ disk' = Write(disk, file, PngFile(BarChart(df[s], c), s))
         /\ charts' = [charts EXCEPT ![s] = Append(@, file)]
         /\ Logged(s, "savefig", file)
  /\ IF idx[s] = Len(ChartColumns(df[s]))
       THEN /\ pc' = [pc EXCEPT ![s] = "scrape"]
            /\ idx' = [idx EXCEPT ![s] = 0]
       ELSE /\ idx' = [idx EXCEPT ![s] = @ + 1]
            /\ pc' = pc
  /\ UNCHANGED <<client, apiErrors, busy, runs, product, df, web_data, ai_sections,
                 doc, report_path, error, offered, page>>

\* fig.savefig fails to write: nothing catches it
CreateVisualsRaise(s) ==
  /\ pc[s] = "visuals"
  /\ idx[s] <= Len(ChartColumns(df[s]))
  /\ Raise(s, "OSError", "create_visuals")
  /\ UNCHANGED <<client, disk, apiErrors, runs, idx, product, df, charts, web_data,
                 ai_sections, doc, report_path, offered, page, log>>

\* ------------------------------------------------------------------ scrape_product_data
Query(p) == Replace(p, SP, "+") \o <<"+environmental+impact">>

NoDataText(p) == <<"No public data found for ">> \o p \o <<DOT>>

FirstFour(paragraphs) ==
  SubSeq(paragraphs, 1, IF Len(paragraphs) < 4 THEN Len(paragraphs) ELSE 4)
FirstFive(paragraphs) ==
  SubSeq(paragraphs, 1, IF Len(paragraphs) < 5 THEN Len(paragraphs) ELSE 5)

ScrapeResult(p, paragraphs) ==
  LET combined == Join(<<SP>>, FirstFive(paragraphs))
  IN  IF Strip(combined) # <<>> THEN combined ELSE NoDataText(p)

\* requests.get answers with a page whose matching elements have the texts
\* `paragraphs`
ScrapeProductData(s, paragraphs) ==
  /\ pc[s] = "scrape"
  /\ page' = [page EXCEPT ![s] = paragraphs]
  /\ web_data' = [web_data EXCEPT ![s] = ScrapeResult(product[s], paragraphs)]
  /\ pc' = [pc EXCEPT ![s] = "narrative"]
  /\ idx' = [idx EXCEPT ![s] = 1]
  /\ Logged(s, "requests.get", Query(product[s]))
  /\ UNCHANGED <<client, disk, apiErrors, busy, runs, product, df, charts,
                 ai_sections, doc, report_path, error, offered>>

\* requests.get raises (no connection): nothing catches it
ScrapeProductDataRaise(s) ==
  /\ pc[s] = "scrape"
  /\ Raise(s, "ConnectionError", "scrape_product_data")
  /\ Logged(s, "requests.get", Query(product[s]))
  /\ UNCHANGED <<client, disk, apiErrors, runs, idx, product, df, charts, web_data,
                 ai_sections, doc, report_path, offered, page>>


\* ------------------------------------------------------------------ generate_ai_section
FallbackTextNoProduct(prompt, p) ==
  <<"[Fallback] This section would normally be generated using AI for: ">> \o prompt \o
  <<" on ">> \o <<DOT>>

FallbackText(prompt, p) ==
  <<"[Fallback] This section would normally be generated using AI for: ">> \o prompt \o
  <<" on ">> \o p \o <<DOT>>

ErrorFallbackText(prompt, e) ==
  <<"[Error or Quota Reached] ">> \o prompt \o
  <<" section fallback: AI generation failed due to: ">> \o ErrorText(e)

ModelText == <<"Generated", SP, "prose">>

\* what client.chat.completions.create does: it raises, or it answers with a
\* response of zero or one choices
Completed(choices) == [exc |-> "none", choices |-> choices]
Failed(e) == [exc |-> e, choices |-> <<>>]
ApiOutcomes == {Completed(<<ModelText>>), Completed(<<>>)} \cup {Failed(e) : e \in OpenAIErrors}

Returned(text, called) == [raised |-> "none", value |-> text, called |-> called]
Propagated(e) == [raised |-> e, value |-> <<>>, called |-> TRUE]

\* the exception the try block ends with ("none": it returned)
TryBlock(outcome) ==
  IF outcome.exc # "none" THEN outcome.exc
  ELSE IF Len(outcome.choices) = 0 THEN "IndexError"
  ELSE "none"

GenerateAiSection(prompt, p, outcome) ==
  IF ~client THEN Returned(FallbackText(prompt, p), FALSE)
  ELSE LET e == TryBlock(outcome)
       IN  IF e = "none" THEN Returned(outcome.choices[1], TRUE)
           ELSE IF e \in OpenAIErrors THEN Returned(ErrorFallbackText(prompt, e), TRUE)
           ELSE Propagated(e)

\* one pass of the loop of the handler: ai_sections[section] = generate_ai_section(...)
NarrativeStep(s, outcome) ==
  /\ pc[s] = "narrative"
  /\ idx[s] <= Len(SectionOrder)
  /\ client /\ outcome.exc \in OpenAIErrors => apiErrors < MaxApiErrors
  /\ LET section == SectionOrder[idx[s]]
         res == GenerateAiSection(section, product[s], outcome)
         made == <<Event("generate_ai_section", section)>> \o
                 (IF res.called THEN <<Event("chat.completions.create", section)>>
                  ELSE <<>>)
     IN  /\ log' = [log EXCEPT ![s] = @ \o made]
         /\ apiErrors' = IF res.called /\ outcome.exc \in OpenAIErrors
                           THEN apiErrors + 1 ELSE apiErrors
         /\ IF res.raised # "none"
              THEN /\ Raise(s, res.raised, "generate_ai_section")
                   /\ UNCHANGED <<ai_sections, idx>>
              ELSE /\ ai_sections' =
                        [ai_sections EXCEPT ![s] = (section :> res.value) @@ @]
                   /\ IF idx[s] = Len(SectionOrder)
                        THEN /\ pc' = [pc EXCEPT ![s] = "report_front"]
                             /\ idx' = [idx EXCEPT ![s] = 0]
                        ELSE /\ pc' = pc
                             /\ idx' = [idx EXCEPT ![s] = @ + 1]
                   /\ UNCHANGED <<busy, error>>
  /\ UNCHANGED <<client, disk, runs, product, df, charts, web_data, doc,
                 report_path, offered, page>>

\* ------------------------------------------------------------------ create_report
ExecutiveSummary == <<"Executive", SP, "Summary">>

FrontSections ==
  << <<"1.", SP, "Introduction">>, <<"2.", SP, "Goal", SP, "and", SP, "Scope">>,
     <<"3.", SP, "Functional", SP, "Unit">>, <<"4.", SP, "System", SP, "Boundary">> >>

BackSections ==
  << <<"8.", SP, "Interpretation">>, <<"9.", SP, "Limitations">>,
     <<"10.", SP, "Recommendations">> >>

Toc ==
  << ExecutiveSummary, <<"1.", SP, "Introduction">>,
     <<"2.", SP, "Goal", SP, "and", SP, "Scope">>, <<"3.", SP, "Functional", SP, "Unit">>,
     <<"4.", SP, "System", SP, "Boundary">>, <<"5. Web-Sourced Product Information">>,
     <<"6. Inventory Analysis">>, <<"7. LCIA with Charts">>, <<"8.", SP, "Interpretation">>,
     <<"9.", SP, "Limitations">>, <<"10.", SP, "Recommendations">>,
     <<"Appendix A: Glossary">>, <<"Appendix B: References">> >>

\* ai_sections[section] of a dict: the value, or a KeyError (found is FALSE)
LookupOrBlank(mapping, key) ==
  IF key \in DOMAIN mapping THEN [found |-> TRUE, value |-> mapping[key]]
  ELSE [found |-> TRUE, value |-> <<>>]

Lookup(mapping, key) ==
  IF key \in DOMAIN mapping THEN [found |-> TRUE, value |-> mapping[key]]
  ELSE [found |-> FALSE, value |-> <<>>]

RECURSIVE SectionBlocks(_, _)
SectionBlocks(labels, mapping) ==
  IF labels = <<>> THEN <<>>
  ELSE <<Heading(Head(labels), 1), Paragraph(Lookup(mapping, Head(labels)).value),
         PageBreak>> \o
       SectionBlocks(Tail(labels), mapping)

\* whether every lookup of the labels, in order, finds its key
AllPresent(labels, mapping) ==
  \A i \in 1..Len(labels) : Lookup(mapping, labels[i]).found

\* str(round(val, 2)) if isinstance(val, (int, float)) else str(val)
CellTextRoundedDown(cell) == IF cell.num THEN FloatStr(RoundDown2(cell.val)) ELSE cell.str
CellText(cell) == IF cell.num THEN FloatStr(Round2(cell.val)) ELSE cell.str

TableRows(frame) ==
  <<frame.columns>> \o
  [r \in 1..Len(frame.rows) |->
     [i \in 1..Len(frame.rows[r]) |-> CellText(frame.rows[r][i])]]

TitlePage(p) ==
  <<Heading(<<"LCA Report for: ">> \o p, 0), Paragraph(<<"Date: ", "today">>),
    ParagraphRight(<<"Confidential - For Internal Use Only">>), PageBreak>>

TocPage ==
  <<Heading(<<"Table of Contents">>, 1)>> \o
  [i \in 1..Len(Toc) |-> Paragraph(Toc[i])] \o <<PageBreak>>

\* lines 69-106: title page, contents, the first five narrative sections, the
\* web excerpt and the data table
FrontMatter(p, frame, web, mapping) ==
  TitlePage(p) \o TocPage \o
  SectionBlocks(<<ExecutiveSummary>> \o FrontSections, mapping) \o
  <<Heading(<<"5. Web-Sourced Product Information">>, 1), Paragraph(web), PageBreak>> \o
  <<Heading(<<"6. Inventory Analysis">>, 1), Table(TableRows(frame)), PageBreak>>

CreateReportFront(s) ==
  /\ pc[s] = "report_front"
  /\ Logged(s, "create_report", product[s])
  /\ IF AllPresent(<<ExecutiveSummary>> \o FrontSections, ai_sections[s])
       THEN /\ doc' = [doc EXCEPT ![s] =
                        FrontMatter(product[s], df[s], web_data[s], ai_sections[s]) \o
                        <<Heading(<<"7. LCIA with Charts">>, 1)>>]
            /\ pc' = [pc EXCEPT ![s] = "report_pics"]
            /\ idx' = [idx EXCEPT ![s] = 1]
            /\ UNCHANGED <<busy, error>>
       ELSE /\ Raise(s, "KeyError", "create_report")
            /\ UNCHANGED <<doc, idx>>
  /\ UNCHANGED <<client, disk, apiErrors, runs, product, df, charts, web_data,
                 ai_sections, report_path, offered, page>>

Caption(chart) == <<"Figure: ">> \o Title(Replace(SplitDotFirst(chart), US, SP))

\* one pass of the loop of lines 109-111: the caption, and the picture read
\* from the chart file as it is now
CreateReportPicture(s) ==
  /\ pc[s] = "report_pics"
  /\ idx[s] <= Len(charts[s])
  /\ LET chart == charts[s][idx[s]]
     IN  IF chart \in DOMAIN disk
           THEN /\ doc' = [doc EXCEPT ![s] =
                            @ \o <<Paragraph(Caption(chart)), Picture(disk[chart])>>]
                /\ idx' = [idx EXCEPT ![s] = @ + 1]
                /\ UNCHANGED <<pc, busy, error>>
           ELSE /\ Raise(s, "FileNotFoundError", "create_report")
                /\ UNCHANGED <<doc, idx>>
  /\ UNCHANGED <<client, disk, apiErrors, runs, product, df, charts, web_data,
                 ai_sections, report_path, offered, page, log>>

Appendices ==
  <<Heading(<<"Appendix A: Glossary">>, 1),
    Paragraph(<<"LCA: Life Cycle Assessment\nGWP: Global Warming Potential\nMJ: Megajoules\nCO2-eq: Carbon dioxide equivalent">>),
    PageBreak,
    Heading(<<"Appendix B: References">>, 1),
    Paragraph(<<"1. ISO 14040/44\n2. Ecoinvent\n3. IPCC\n4. Manufacturer Reports\n5. Online product research">>),
    PageBreak>>

\* lines 112-125: the page break after the charts, the last three narrative
\* sections and the appendices
CreateReportBack(s) ==
  /\ pc[s] = "report_pics"
  /\ idx[s] > Len(charts[s])
  /\ IF AllPresent(BackSections, ai_sections[s])
       THEN /\ doc' = [doc EXCEPT ![s] =
                        @ \o <<PageBreak>> \o SectionBlocks(BackSections, ai_sections[s]) \o
                        Appendices]
            /\ pc' = [pc EXCEPT ![s] = "report_save"]
            /\ idx' = [idx EXCEPT ![s] = 0]
            /\ UNCHANGED <<busy, error>>
       ELSE /\ Raise(s, "KeyError", "create_report")
            /\ UNCHANGED <<doc, idx>>
  /\ UNCHANGED <<client, disk, apiErrors, runs, product, df, charts, web_data,
                 ai_sections, report_path, offered, page, log>>

ReportFileSpaces(p) == <<"LCA_Report_AI_">> \o p \o <<".docx">>
ReportFile(p) == <<"LCA_Report_AI_">> \o Replace(p, SP, US) \o <<".docx">>

\* lines 127-129: doc.save(filename); return filename; the spinner's block ends
CreateReportSave(s) ==
  /\ pc[s] = "report_save"
  /\ LET filename == ReportFile(product[s])
     IN  /\ disk' = Write(disk, filename, DocxFile(doc[s], s))
         /\ report_path' = [report_path EXCEPT ![s] = filename]
         /\ Logged(s, "doc.save", filename)
  /\ pc' = [pc EXCEPT ![s] = "download"]
  /\ busy' = [busy EXCEPT ![s] = FALSE]
  /\ UNCHANGED <<client, apiErrors, runs, idx, product, df, charts, web_data,
                 ai_sections, doc, error, offered, page>>

\* doc.save fails to write: nothing catches it
CreateReportSaveRaise(s) ==
  /\ pc[s] = "report_save"
  /\ Raise(s, "OSError", "create_report")
  /\ UNCHANGED <<client, disk, apiErrors, runs, idx, product, df, charts, web_data,
                 ai_sections, doc, report_path, offered, page, log>>

\* lines 149-150: the report is read back from disk into the download button,
\* and the script run ends
Download(s) ==
  /\ pc[s] = "download"
  /\ offered' = [offered EXCEPT ![s] = disk[report_path[s]]]
  /\ pc' = [pc EXCEPT ![s] = "idle"]
  /\ UNCHANGED <<client, disk, apiErrors, busy, runs, idx, product, df, charts,
                 web_data, ai_sections, doc, report_path, error, page, log>>

\* ------------------------------------------------------------------ specifications
\* the product names typed in a pipeline run, and the pages the search answers with
PipelineProducts == Products
Pages == {<<>>, << <<"Low", SP, "impact">> >>, << <<SP>>, <<>> >>}

Step(s) ==
  \/ \E p \in PipelineProducts : Trigger(s, p)
  \/ \E k \in 1..MaxDraw : GenerateLciData(s, k)
  \/ CreateVisuals(s)
  \/ CreateVisualsRaise(s)
  \/ \E paragraphs \in Pages : ScrapeProductData(s, paragraphs)
  \/ ScrapeProductDataRaise(s)
  \/ \E outcome \in ApiOutcomes : NarrativeStep(s, outcome)
  \/ CreateReportFront(s)
  \/ CreateReportPicture(s)
  \/ CreateReportBack(s)
  \/ CreateReportSave(s)
  \/ CreateReportSaveRaise(s)
  \/ Download(s)

\* one browser session pressing the button
Next == Step(1)

Spec == Init /\ [][Next]_vars

\* --- the same session of a server started without OPENAI_API_KEY
InitNoCredential == Init /\ ~client

SpecNoCredential == InitNoCredential /\ [][Next]_vars

\* --- the same session with one product, one inventory draw and a page without
\* matches, under every outcome of the completion requests
NextNarrative ==
  \/ Trigger(1, ElectricToothbrush)
  \/ GenerateLciData(1, 1)
  \/ CreateVisuals(1)
  \/ CreateVisualsRaise(1)
  \/ ScrapeProductData(1, <<>>)
  \/ ScrapeProductDataRaise(1)
  \/ \E outcome \in ApiOutcomes : NarrativeStep(1, outcome)
  \/ CreateReportFront(1)
  \/ CreateReportPicture(1)
  \/ CreateReportBack(1)
  \/ CreateReportSave(1)
  \/ CreateReportSaveRaise(1)
  \/ Download(1)

SpecNarrative == Init /\ [][NextNarrative]_vars

\* --- scrape_product_data over every page of up to MaxMatches matching elements
Fragments == {<<>>, <<SP>>, <<SP, "eco">>}
AllPages == UNION {[1..n -> Fragments] : n \in 0..MaxMatches}

NextScrape ==
  \/ \E p \in {ElectricToothbrush, Eco_Mug} : Trigger(1, p)
  \/ GenerateLciData(1, 1)
  \/ CreateVisuals(1)
  \/ \E paragraphs \in AllPages : ScrapeProductData(1, paragraphs)
  \/ ScrapeProductDataRaise(1)

SpecScrape == Init /\ [][NextScrape]_vars

\* --- create_report called with any narrative mapping over a subset of the labels
SectionText(label) == <<"Text of ">> \o label

Mappings ==
  {[l \in D |-> SectionText(l)] : D \in SUBSET {SectionOrder[i] : i \in 1..Len(SectionOrder)}}

\* report_path = create_report(product, df, charts, web_data, ai_sections) with
\* a mapping the caller built itself
CallCreateReport(s, mapping) ==
  /\ pc[s] = "narrative"
  /\ idx[s] = 1
  /\ ai_sections' = [ai_sections EXCEPT ![s] = mapping]
  /\ pc' = [pc EXCEPT ![s] = "report_front"]
  /\ idx' = [idx EXCEPT ![s] = 0]
  /\ UNCHANGED <<client, disk, apiErrors, busy, runs, product, df, charts, web_data,
                 doc, report_path, error, offered, page, log>>

NextAssembler ==
  \/ \E p \in {ElectricToothbrush, EcoMug} : Trigger(1, p)
  \/ \E k \in 1..MaxDraw : GenerateLciData(1, k)
  \/ CreateVisuals(1)
  \/ ScrapeProductData(1, << <<"Low", SP, "impact">> >>)
  \/ \E mapping \in Mappings : CallCreateReport(1, mapping)
  \/ CreateReportFront(1)
  \/ CreateReportPicture(1)
  \/ CreateReportBack(1)
  \/ CreateReportSave(1)
  \/ CreateReportSaveRaise(1)
  \/ Download(1)

SpecAssembler == InitNoCredential /\ [][NextAssembler]_vars

\* --- two browser sessions of the one server process, sharing its working directory
\* each session asks for a product of its own; the two names differ, and differ
\* only in a space against an underscore
TypedIn == <<EcoMug, Eco_Mug>>

StepConcurrent(s) ==
  \/ Trigger(s, TypedIn[s])
  \/ GenerateLciData(s, 1)
  \/ CreateVisuals(s)
  \/ ScrapeProductData(s, <<>>)
  \/ NarrativeStep(s, Completed(<<ModelText>>))
  \/ CreateReportFront(s)
  \/ CreateReportPicture(s)
  \/ CreateReportBack(s)
  \/ CreateReportSave(s)
  \/ Download(s)

NextConcurrent == \E s \in Sessions : StepConcurrent(s)

SpecConcurrent == InitNoCredential /\ [][NextConcurrent]_vars


\* ------------------------------------------------------------------ properties
\* the eight section labels
Labels ==
  { <<"Executive", SP, "Summary">>, <<"1.", SP, "Introduction">>,
    <<"2.", SP, "Goal", SP, "and", SP, "Scope">>, <<"3.", SP, "Functional", SP, "Unit">>,
    <<"4.", SP, "System", SP, "Boundary">>, <<"8.", SP, "Interpretation">>,
    <<"9.", SP, "Limitations">>, <<"10.", SP, "Recommendations">> }

\* the run of session s has made a call of op
Made(s, op) == \E i \in 1..Len(log[s]) : log[s][i].op = op

Count(seq, Test(_)) == Cardinality({i \in 1..Len(seq) : Test(seq[i])})

\* create_report is running, or has run, on a mapping that lacks a label
Lacking(s) ==
  /\ pc[s] = "report_front" \/ Made(s, "create_report")
  /\ DOMAIN ai_sections[s] # Labels

\* every narrative heading of the document under assembly is followed by
\* the mapping's text for it
NoBlankSubstitution(s) ==
  \A i \in 1..Len(doc[s]) :
    doc[s][i].kind = "heading" /\ doc[s][i].text \in Labels =>
      /\ doc[s][i].text \in DOMAIN ai_sections[s]
      /\ doc[s][i + 1].kind = "paragraph"
      /\ doc[s][i + 1].text = ai_sections[s][doc[s][i].text]

\* create_visuals has returned in the run of session s
VisualsReturned(s) ==
  pc[s] \in {"scrape", "narrative", "report_front", "report_pics", "report_save",
             "download"}

\* the chart file a column label names: the label with "_" for each " ", then ".png"
NamedAfter(file, column) ==
  /\ Len(file) = Len(column) + 2
  /\ \A j \in 1..Len(column) : file[j] = (IF column[j] = " " THEN "_" ELSE column[j])
  /\ file[Len(column) + 1] = "."
  /\ file[Len(column) + 2] = "png"

ToothbrushReport == <<"LCA_Report_AI_", "Electric", "_", "Toothbrush", ".docx">>

IsFallbackFor(e, p) ==
  /\ e.kind = "paragraph"
  /\ e.text # <<>>
  /\ e.text[1] = "[Fallback] This section would normally be generated using AI for: "
  /\ Contains(e.text, p)

IsNumberText(text) ==
  /\ Len(text) >= 3
  /\ \E d \in 2..(Len(text) - 1) :
       /\ text[d] = "."
       /\ \A j \in (1..Len(text)) \ {d} : \E n \in 1..10 : DigitChar[n] = text[j]

IsInventoryTable(e) ==
  /\ e.kind = "table"
  /\ Len(e.rows) = 5
  /\ \A r \in 1..5 : Len(e.rows[r]) = 4
  /\ \A r \in 2..5 : \A c \in 2..4 : IsNumberText(e.rows[r][c])

CompleteReport(file, p) ==
  /\ file.kind = "docx"
  /\ Count(file.body, LAMBDA e : IsFallbackFor(e, p)) = 8
  /\ Count(file.body, LAMBDA e : e.kind = "table") = 1
  /\ \E i \in 1..Len(file.body) : IsInventoryTable(file.body[i])
  /\ Count(file.body, LAMBDA e : e.kind = "picture" /\ e.image.kind = "png") = 3

\* the triggered run of session s is over
Ended(s) == runs[s] > 0 /\ pc[s] = "idle"

\* how many of the page's elements scrape_product_data is to take
Taken(s) == IF Len(page[s]) < 5 THEN Len(page[s]) ELSE 5

RECURSIVE Offset(_, _)
\* where the i-th element's text starts in the joined string (0-based)
Offset(s, i) == IF i = 1 THEN 0 ELSE Offset(s, i - 1) + Len(page[s][i - 1]) + 1

IsJoined(s, text) ==
  /\ Len(text) = Offset(s, Taken(s)) + Len(page[s][Taken(s)])
  /\ \A i \in 1..Taken(s) :
       /\ SubSeq(text, Offset(s, i) + 1, Offset(s, i) + Len(page[s][i])) = page[s][i]
       /\ i > 1 => text[Offset(s, i)] = " "

AllBlank(s) ==
  \A i \in 1..Taken(s) : \A j \in 1..Len(page[s][i]) : page[s][i][j] = " "

DigitValue(ch) == CHOOSE d \in 0..9 : DigitChar[d + 1] = ch

RECURSIVE Natural(_)
Natural(text) ==
  IF text = <<>> THEN 0
  ELSE 10 * Natural(SubSeq(text, 1, Len(text) - 1)) + DigitValue(text[Len(text)])

\* the number a cell's text reads as, in hundredths
Hundredths(text) ==
  LET d == CHOOSE i \in 1..Len(text) : text[i] = "."
      frac == SubSeq(text, d + 1, Len(text))
  IN  100 * Natural(SubSeq(text, 1, d - 1)) +
      (IF Len(frac) = 1 THEN 10 * Natural(frac) ELSE Natural(frac))

\* h hundredths is a hundredth nearest to the float val
Nearest(h, val) ==
  LET diff == 100 * val - Scale * h
  IN  2 * diff <= Scale /\ 2 * diff >= 0 - Scale

TableOf(file) == file.body[CHOOSE i \in 1..Len(file.body) : file.body[i].kind = "table"]

\* where the script is while the spinner's block runs
Generating == {"lci", "visuals", "scrape", "narrative", "report_front", "report_pics",
               "report_save"}

Underscored(p) == [i \in 1..Len(p) |-> IF p[i] = " " THEN "_" ELSE p[i]]

ExpectedOps ==
  <<"generate_lci_data", "savefig", "savefig", "savefig", "requests.get",
    "generate_ai_section", "generate_ai_section", "generate_ai_section",
    "generate_ai_section", "generate_ai_section", "generate_ai_section",
    "generate_ai_section", "generate_ai_section", "create_report", "doc.save">>

ExpectedLabels ==
  << <<"Executive", SP, "Summary">>, <<"1.", SP, "Introduction">>,
     <<"2.", SP, "Goal", SP, "and", SP, "Scope">>, <<"3.", SP, "Functional", SP, "Unit">>,
     <<"4.", SP, "System", SP, "Boundary">>, <<"8.", SP, "Interpretation">>,
     <<"9.", SP, "Limitations">>, <<"10.", SP, "Recommendations">> >>

IsCall(e) == e.op # "chat.completions.create"

\* every value of every inventory table lies in its column's range
InventoryInRange ==
  \A s \in Sessions :
    \A r \in 1..Len(df[s].rows) : \A c \in 1..Len(MetricColumns) :
      /\ df[s].rows[r][c + 1].val >= RangeLo[c][r] * Scale
      /\ df[s].rows[r][c + 1].val <= RangeHi[c][r] * Scale

\* C1: with no credential (client is None) no completion request is ever made,
\* and every narrative value returned for a label and a product contains both
\* the label and the product.
C1_FallbackNamesSectionAndProduct ==
  ~client =>
    \A s \in Sessions :
      /\ ~Made(s, "chat.completions.create")
      /\ \A l \in DOMAIN ai_sections[s] :
           /\ l \in Labels
           /\ Contains(ai_sections[s][l], l)
           /\ Contains(ai_sections[s][l], product[s])

C1_Witness ==
  /\ ~client
  /\ pc[1] = "report_front"
  /\ DOMAIN ai_sections[1] = Labels
  /\ product[1] = EcoMug

\* C2: with the credential configured, generate_ai_section never raises, whatever
\* way the completion call fails (reading the response's first choice included):
\* every value it returned is the model's text or a string containing the section
\* label and the failure's text.
C2_NeverRaises ==
  client =>
    \A s \in Sessions :
      /\ error[s].at # "generate_ai_section"
      /\ \A l \in DOMAIN ai_sections[s] :
           \/ ai_sections[s][l] = ModelText
           \/ /\ Contains(ai_sections[s][l], l)
              /\ \E e \in OpenAIErrors : Contains(ai_sections[s][l], ErrorText(e))

\* C3: create_report called with a narrative mapping that lacks a required key
\* ends in a KeyError: it never reaches the save, puts no blank paragraph in the
\* place of the missing section, and leaves the working directory as it was.
C3_MissingKeyFails ==
  /\ [](\A s \in Sessions :
         Lacking(s) =>
           /\ pc[s] \in {"report_front", "report_pics", "idle"}
           /\ pc[s] = "idle" => error[s] = Exc("KeyError", "create_report")
           /\ ~Made(s, "doc.save")
           /\ report_path[s] = <<>>
           /\ NoBlankSubstitution(s))
  /\ [][\A s \in Sessions : Lacking(s) /\ pc[s] # "idle" => disk' = disk]_vars

C3_Witness ==
  /\ pc[1] = "idle"
  /\ error[1] = Exc("KeyError", "create_report")
  /\ Labels \ DOMAIN ai_sections[1] = { <<"9.", SP, "Limitations">> }
  /\ Len(doc[1]) > 0

\* C4 as stated: once the chart renderer has returned, the run has produced
\* exactly 4 chart files.
C4_FourCharts == \A s \in Sessions : VisualsReturned(s) => Len(charts[s]) = 4

\* C4 (amended): once the chart renderer has returned, the run has produced
\* exactly 3 chart files, one per numeric column of the Inventory Table, each
\* named from its column label (spaces replaced by underscores, suffix .png),
\* returned in column order, and each holding the chart of that column.
C4_ThreeCharts ==
  \A s \in Sessions :
    VisualsReturned(s) =>
      /\ Len(charts[s]) = 3
      /\ Count(log[s], LAMBDA e : e.op = "savefig") = 3
      /\ Len(df[s].columns) = 4
      /\ \A i \in 1..3 :
           /\ NamedAfter(charts[s][i], df[s].columns[i + 1])
           /\ charts[s][i] \in DOMAIN disk
           /\ disk[charts[s][i]].kind = "png"
           /\ disk[charts[s][i]].image.title = df[s].columns[i + 1] \o <<" by Stage">>
           /\ \A r \in 1..4 : disk[charts[s][i]].image.bars[r] = df[s].rows[r][i + 1].val
      /\ {n \in DOMAIN disk : disk[n].kind = "png"} = {charts[s][i] : i \in 1..3}

C4_Witness ==
  /\ pc[1] = "scrape"
  /\ charts[1][2] = <<"GHG", "_", "Emissions", "_", "(kg", "_", "CO2-eq)", ".", "png">>
  /\ product[1] = EcoMug

\* C5 as stated: with product "Electric Toothbrush" and no credential, every
\* triggered run that has ended has completed: the report file exists and holds
\* 8 fallback paragraphs naming the product, the 4 by 3 table and 3 pictures.
C5_AlwaysCompletes ==
  \A s \in Sessions :
    ~client /\ product[s] = ElectricToothbrush /\ Ended(s) =>
      /\ error[s] = NoError
      /\ ToothbrushReport \in DOMAIN disk
      /\ CompleteReport(disk[ToothbrushReport], ElectricToothbrush)

\* C5 (amended): with product "Electric Toothbrush" and no credential, a
\* triggered run that has ended either completed, and then
\* LCA_Report_AI_Electric_Toothbrush.docx exists, is the file offered for
\* download, and holds 8 fallback paragraphs naming the product, the table of 4
\* stage rows by 3 numeric columns and 3 chart pictures; or it was ended by an
\* uncaught failure of a chart write, of the web fetch or of the document save.
C5_CompletesUnlessUncaught ==
  \A s \in Sessions :
    ~client /\ product[s] = ElectricToothbrush /\ Ended(s) =>
      \/ /\ error[s] = NoError
         /\ report_path[s] = ToothbrushReport
         /\ ToothbrushReport \in DOMAIN disk
         /\ offered[s] = disk[ToothbrushReport]
         /\ CompleteReport(disk[ToothbrushReport], ElectricToothbrush)
      \/ error[s] \in {Exc("OSError", "create_visuals"),
                       Exc("ConnectionError", "scrape_product_data"),
                       Exc("OSError", "create_report")}

C5_Witness ==
  /\ ~client
  /\ product[1] = ElectricToothbrush
  /\ Ended(1)
  /\ error[1] = NoError
  /\ offered[1].kind = "docx"

\* C6: scrape_product_data(P) returns the texts of at most the first five
\* matching elements joined by single spaces, unchanged; when no element matches
\* or the joined text is blank after trimming, it returns exactly
\* "No public data found for <P>.".
C6_ScrapeJoinsFirstFive ==
  \A s \in Sessions :
    pc[s] = "narrative" =>
      IF AllBlank(s)
        THEN web_data[s] = <<"No public data found for ">> \o product[s] \o <<".">>
        ELSE IsJoined(s, web_data[s])

C6_Witness ==
  /\ pc[1] = "narrative"
  /\ page[1] = << <<" ">>, <<>>, <<" ", "eco">>, <<>>, <<" ">>, <<" ", "eco">> >>
  /\ web_data[1] = <<" ", " ", " ", " ", "eco", " ", " ", " ">>

\* C7: in the saved document's data table the header row holds the column
\* names, every row of the Inventory Table follows once and in table order, its
\* stage label copied unchanged and each numeric cell reading as the
\* hundredth nearest to the table's value.
C7_TableRoundTrip ==
  \A s \in Sessions :
    pc[s] = "download" =>
      LET rows == TableOf(disk[report_path[s]]).rows
      IN  /\ Len(rows) = Len(df[s].rows) + 1
          /\ rows[1] = df[s].columns
          /\ \A r \in 1..Len(df[s].rows) :
               /\ Len(rows[r + 1]) = Len(df[s].rows[r])
               /\ rows[r + 1][1] = df[s].rows[r][1].str
               /\ \A c \in 2..Len(df[s].rows[r]) :
                    /\ IsNumberText(rows[r + 1][c])
                    /\ Len(rows[r + 1][c]) - (CHOOSE i \in 1..Len(rows[r + 1][c]) :
                                                rows[r + 1][c][i] = ".") <= 2
                    /\ Nearest(Hundredths(rows[r + 1][c]), df[s].rows[r][c].val)

C7_Witness ==
  /\ pc[1] = "download"
  /\ df[1].rows[3][3].val = Scale + 128
  /\ TableOf(disk[report_path[1]]).rows[4][3] = <<"1", ".", "1", "2">>
  /\ \E r \in 1..4 : \E c \in 2..4 : Len(TableOf(disk[report_path[1]]).rows[r + 1][c]) = 4
                                     /\ TableOf(disk[report_path[1]]).rows[r + 1][c][3] = "."

\* C8: the shell is idle or generating (the spinner shown exactly while the
\* pipeline runs); a trigger moves idle to generating with a fresh table, chart
\* list, excerpt, narrative mapping, document and report path; and the spinner
\* goes away exactly when the pipeline ends, by returning or by an uncaught
\* exception.
C8_IdleGenerating ==
  /\ [](\A s \in Sessions :
         /\ busy[s] \in BOOLEAN
         /\ busy[s] <=> pc[s] \in Generating)
  /\ [][\A s \in Sessions :
         /\ runs'[s] # runs[s] =>
              /\ ~busy[s] /\ busy'[s]
              /\ df'[s] = [columns |-> <<>>, rows |-> <<>>]
              /\ charts'[s] = <<>>
              /\ web_data'[s] = <<>>
              /\ DOMAIN ai_sections'[s] = {}
              /\ doc'[s] = <<>>
              /\ report_path'[s] = <<>>
         /\ ~busy[s] /\ busy'[s] => runs'[s] = runs[s] + 1
         /\ busy[s] /\ ~busy'[s] =>
              \/ pc'[s] = "download" /\ error'[s].exc = "none"
              \/ pc'[s] = "idle" /\ error'[s].exc # "none"
         /\ busy[s] /\ pc'[s] \notin Generating => ~busy'[s]]_vars

C8_Witness ==
  /\ runs[1] = 2
  /\ pc[1] = "lci"
  /\ busy[1]
  /\ \E n \in DOMAIN disk : disk[n].kind = "docx"
  /\ df[1].rows = <<>>

\* C9: the chart file names depend on the metric names alone: whatever their
\* products, two runs hold the same chart paths, and two products with the same
\* underscore form get the same report path.  (The race this permits is the
\* state of C9_Witness.)
C9_SharedFileNames ==
  \A s, t \in Sessions :
    /\ \A i \in 1..Len(charts[s]) : i <= Len(charts[t]) => charts[s][i] = charts[t][i]
    /\ \A i \in 1..Len(doc[s]) :
         doc[s][i].kind = "picture" => doc[s][i].image.writer \in Sessions
    /\ report_path[s] # <<>> /\ report_path[t] # <<>>
       /\ Underscored(product[s]) = Underscored(product[t])
         => report_path[s] = report_path[t]

\* session s is about to offer a document that the other session t wrote over
\* its own, and that document embeds a chart image that s, not t, wrote
C9_Witness ==
  \E s, t \in Sessions :
    /\ s # t
    /\ product[s] # product[t]
    /\ pc[s] = "download"
    /\ disk[report_path[s]].writer = t
    /\ \E i \in 1..Len(disk[report_path[s]].body) :
         /\ disk[report_path[s]].body[i].kind = "picture"
         /\ disk[report_path[s]].body[i].image.writer = s

\* C10: the calls of one run are a prefix of: inventory, three chart writes, the
\* web fetch, the eight narrative calls in the fixed order of the labels (each
\* completion request inside its own narrative call), assembly, save; the save
\* comes only with all eight narrative values present; and after an uncaught
\* exception the run makes no further call and writes nothing.
C10_StagesInOrder ==
  /\ [](\A s \in Sessions :
         LET calls == SelectSeq(log[s], IsCall)
         IN  /\ Len(calls) <= Len(ExpectedOps)
             /\ \A i \in 1..Len(calls) :
                  /\ calls[i].op = ExpectedOps[i]
                  /\ i \in 6..13 => calls[i].arg = ExpectedLabels[i - 5]
             /\ \A i \in 1..Len(log[s]) :
                  ~IsCall(log[s][i]) =>
                    i > 1 /\ log[s][i - 1] = Event("generate_ai_section", log[s][i].arg)
             /\ Made(s, "create_report") \/ Made(s, "doc.save") =>
                  DOMAIN ai_sections[s] = Labels
             /\ Made(s, "doc.save") => error[s] = NoError)
  /\ [][\A s \in Sessions :
         error[s] # NoError /\ runs'[s] = runs[s] =>
           log'[s] = log[s] /\ disk' = disk /\ error'[s] = error[s]]_vars

C10_Witness ==
  /\ client
  /\ pc[1] = "idle"
  /\ error[1] = Exc("IndexError", "generate_ai_section")
  /\ Len(SelectSeq(log[1], IsCall)) = 8
  /\ runs[1] = 2

====
